---- MODULE Spec2Model ----
(***************************************************************************)
(* Model of swipl/src/context.rs: the activation / nesting protocol of     *)
(* Context<T>, the Frame and Query lifecycles and their drop glue.         *)
(*                                                                         *)
(* The foreign engine (swipl_sys, PL_* entry points) and Term::unify are   *)
(* collaborators outside context.rs; they are modelled from the            *)
(* specification text (sections 4.2, 4.3 and 6) and from what the tests    *)
(* in context.rs observe of them.                                          *)
(***************************************************************************)
EXTENDS Integers, Sequences, FiniteSets, TLC

\* ---------------------------------------------------------------- bounds
MaxCtx == 4
MaxRefs == 1
NVars == 1
MaxSol == 2

Ids == 1..MaxCtx
Vars == 1..NVars
Root == 1
\* goal of a query: n >= 0 has exactly n solutions, -1 raises an exception,
\* -2 makes the engine answer with a code that is none of -1, 0, 1, 2
Goals == (-2)..MaxSol

VARIABLES
    kind,       \* context kind T of Context<T>; "None" while not created
    parent,     \* Context.parent (0 = None)
    origin,     \* the context an as_unknown alias borrows (0 = none)
    activated,  \* Context.activated
    status,     \* "unborn" | "live" | "dropped"
    fstate,     \* Frame.state
    closed,     \* Query.closed
    eng,        \* the foreign engine
    terms,      \* Term handles the caller still holds (borrowing their owner)
    last        \* the last API operation: what was called, on what, outcome

vars == <<kind, parent, origin, activated, status, fstate, closed, eng, terms, last>>

ctxvars == <<kind, parent, origin, activated, status, fstate, closed>>

Min(a, b) == IF a < b THEN a ELSE b

Live(c) == status[c] = "live"

\* Identities are handed out in creation order and never reused.
HasFree == \E c \in Ids : status[c] = "unborn"

Fresh == CHOOSE c \in Ids : status[c] = "unborn" /\ \A d \in Ids : d < c => status[d] # "unborn"

\* A context is borrowed by its children (parent: Some(self)), by the aliases
\* as_unknown(&self) returned, and by the terms Term::new(term, self) made.
Borrowers(c) == {d \in Ids : Live(d) /\ (parent[d] = c \/ origin[d] = c)}

\* Consuming a context (drop, close_frame(self), cut(self), ...) needs it unborrowed.
Leaf(c) == Borrowers(c) = {}

\* ------------------------------------------------------------ the engine
\* Every entry point notes its call in e.calls, the trace of the operation in
\* progress; the activation protocol notes its flag changes there too, so that
\* the trace gives the order of both.
Note(e, ev, id) == [e EXCEPT !.calls = Append(e.calls, [ev |-> ev, id |-> id])]

\* A new operation starts with an empty trace.
Start(e) == [e EXCEPT !.calls = <<>>]

\* Undo the trail back to mark m: every binding made after m is erased.
Undo(e, m) ==
    LET keep == Min(m, Len(e.trail))
        gone == {e.trail[i] : i \in (keep + 1)..Len(e.trail)}
    IN  [e EXCEPT !.trail = SubSeq(e.trail, 1, keep),
                  !.value = [v \in Vars |-> IF v \in gone THEN 0 ELSE e.value[v]],
                  !.within = [v \in Vars |-> IF v \in gone THEN {} ELSE e.within[v]]]

\* Term::unify on n fresh term references (term.rs): n bindings, trailed, of
\* variables that are not among Vars (written 0 in the trail).
BindFresh(e, n) == [e EXCEPT !.trail = e.trail \o [i \in 1..n |-> 0]]

\* The frames and queries open on the engine
OpenOn(e) == {e.stack[i] : i \in DOMAIN e.stack}

\* Variable v gets value x: the binding is trailed, and within records the
\* frames and queries that are open while it is made.
Bind(e, v, x) ==
    [e EXCEPT !.value[v] = x, !.trail = Append(e.trail, v), !.within[v] = OpenOn(e)]

\* The engine's stack once entry id is released: id and whatever lies above it go.
PopTo(stack, id) ==
    IF \E i \in 1..Len(stack) : stack[i] = id
    THEN SubSeq(stack, 1, (CHOOSE i \in 1..Len(stack) : stack[i] = id) - 1)
    ELSE stack

Push(e, id) ==
    [e EXCEPT !.stack = Append(e.stack, id),
              !.mark[id] = [ref |-> e.refTop, trail |-> Len(e.trail)]]

Release(e, id) ==
    [e EXCEPT !.stack = PopTo(e.stack, id),
              !.refTop = Min(e.refTop, e.mark[id].ref)]

\* The bookkeeping of a released entry is gone with its owner; what stays is
\* the last return code the caller was given.
Forget(e, id) ==
    [e EXCEPT !.mark[id] = [ref |-> 0, trail |-> 0],
              !.qvar[id] = 1, !.qn[id] = 0, !.qpos[id] = 0,
              !.within = [v \in Vars |-> e.within[v] \ {id}]]

PL_new_term_ref(e) == Note([e EXCEPT !.refTop = e.refTop + 1], "PL_new_term_ref", 0)

PL_new_term_refs(e, n) == Note([e EXCEPT !.refTop = e.refTop + n], "PL_new_term_refs", 0)

PL_open_foreign_frame(e, id) == Note(Push(e, id), "PL_open_foreign_frame", id)

\* close: bindings made since the frame opened are kept, its reference slots freed
PL_close_foreign_frame(e, id) == Note(Release(e, id), "PL_close_foreign_frame", id)

\* discard: as close, and the bindings made while the frame was open are undone
PL_discard_foreign_frame(e, id) ==
    Note(Release(Undo(e, e.mark[id].trail), id), "PL_discard_foreign_frame", id)

\* rewind: the allocation pointer goes back to the frame's opening point
PL_rewind_foreign_frame(e, id) ==
    Note([e EXCEPT !.refTop = Min(e.refTop, e.mark[id].ref)], "PL_rewind_foreign_frame", id)

PL_open_query(e, id, v, g) ==
    Note([Push(e, id) EXCEPT !.qvar[id] = v, !.qn[id] = g, !.qpos[id] = 0, !.qrc[id] = 0],
         "PL_open_query", id)

\* next solution: backtrack to the query's opening point, then bind the next
\* solution if there is one.  The return code is the engine's numeric code.
\* A query whose qvar is 0 binds none of Vars (its solutions bind variables of
\* its own, as the output term of the parsing predicate).
NextBinds(e, id) ==
    /\ e.qn[id] >= 0
    /\ e.qpos[id] < e.qn[id]
    /\ e.qvar[id] # 0 => Undo(e, e.mark[id].trail).value[e.qvar[id]] = 0

\* return code: the goal's own code if it has one (-1, -2), else 0 for no
\* (further) solution, 2 for the last solution, 1 for a solution with more left
PL_next_solution_rc(e, id) ==
    IF e.qn[id] < 0 THEN e.qn[id]
    ELSE IF ~NextBinds(e, id) THEN 0
    ELSE IF e.qpos[id] + 1 = e.qn[id] THEN 2 ELSE 1

PL_next_solution(e, id) ==
    LET u == [Undo(e, e.mark[id].trail) EXCEPT !.qrc[id] = PL_next_solution_rc(e, id)]
    IN  Note(IF NextBinds(e, id)
             THEN [(IF e.qvar[id] = 0 THEN u ELSE Bind(u, e.qvar[id], e.qpos[id] + 1))
                       EXCEPT !.qpos[id] = e.qpos[id] + 1]
             ELSE u,
             "PL_next_solution", id)

\* cut: the current bindings stay
PL_cut_query(e, id) == Note(Release(e, id), "PL_cut_query", id)

\* close: every binding made during the query is undone
PL_close_query(e, id) == Note(Release(Undo(e, e.mark[id].trail), id), "PL_close_query", id)

\* ------------------------------------------------------------- contexts
\* faulty variant: an assert_activated that checks nothing
assert_activated_off(c) == TRUE

assert_activated(c) == activated[c]

\* compare_and_swap(false, true): the flag ends true either way; a flag found
\* true already is the "context already active" panic.
\* faulty variant: a reactivate that leaves the flag as it found it
reactivate_forgets(act, p) == act

reactivate(act, p) == [act EXCEPT ![p] = TRUE]

reactivate_panics(act, p) == act[p]

\* faulty variant: a Context drop that leaves the parent as it is
ContextDrop_keeps(act, c) == act

\* faulty variant: a handoff that leaves the caller active
handoff_keeps(act, c, q) == [act EXCEPT ![q] = TRUE]

\* self.activated.store(false) and the child made with activated: true
handoff(act, c, q) == [act EXCEPT ![c] = FALSE, ![q] = TRUE]

\* Drop for Context: runs before the fields (the Frame or Query) are dropped.
ContextDrop(act, c) == IF parent[c] # 0 THEN reactivate(act, parent[c]) ELSE act

ContextDropPanics(c) == parent[c] # 0 /\ reactivate_panics(activated, parent[c])

ContextDropNote(e, c) ==
    IF parent[c] = 0 THEN e
    ELSE Note(e, IF ContextDropPanics(c) THEN "panic" ELSE "reactivate", parent[c])

\* faulty variant: a Frame drop that closes whatever the state
FrameDrop_always(e, c, st) == PL_close_foreign_frame(e, c)

\* Drop for Frame, given the state the frame is in when it is dropped
FrameDrop(e, c, st) == IF st = "Active" THEN PL_close_foreign_frame(e, c) ELSE e

\* faulty variant: a Query drop that cuts the query it finds open
QueryDrop_cuts(e, c, cl) == IF ~cl THEN PL_cut_query(e, c) ELSE e

\* faulty variant: a Query drop that closes whatever the flag
QueryDrop_always(e, c, cl) == PL_close_query(e, c)

\* Drop for Query, given the closed flag at drop time
QueryDrop(e, c, cl) == IF ~cl THEN PL_close_query(e, c) ELSE e

\* The handles that survive: those of a consumed context end with its borrow;
\* a handle whose slot lies above the allocation pointer has become stale.
KeepTerms(ts, gone, top) ==
    {[t EXCEPT !.stale = t.stale \/ t.slot > top] : t \in {x \in ts : x.owner # gone}}

Result(op, c, res) == [op |-> op, ctx |-> c, result |-> res]

\* An operation that faulted in assert_activated: nothing else has happened.
Panic(c) ==
    /\ last' = Result("assert_activated", c, "panic")
    /\ eng' = Start(eng)
    /\ UNCHANGED <<ctxvars, terms>>

\* ----------------------------------------------------------------- Init
Init ==
    /\ kind = [c \in Ids |-> IF c = Root THEN "ActivatedEngine" ELSE "None"]
    /\ parent = [c \in Ids |-> 0]
    /\ origin = [c \in Ids |-> 0]
    /\ activated = [c \in Ids |-> c = Root]
    /\ status = [c \in Ids |-> IF c = Root THEN "live" ELSE "unborn"]
    /\ fstate = [c \in Ids |-> "Active"]
    /\ closed = [c \in Ids |-> FALSE]
    /\ eng = [stack |-> <<>>, refTop |-> 0, trail |-> <<>>,
              value |-> [v \in Vars |-> 0], within |-> [v \in Vars |-> {}],
              mark |-> [c \in Ids |-> [ref |-> 0, trail |-> 0]],
              qvar |-> [c \in Ids |-> 1], qn |-> [c \in Ids |-> 0],
              qpos |-> [c \in Ids |-> 0], qrc |-> [c \in Ids |-> 0],
              calls |-> <<>>]
    /\ terms = {}
    /\ last = Result("into", Root, "ok")

\* -------------------------------------------------------------- actions
NewChild(c, k, par, org) ==
    /\ kind' = [kind EXCEPT ![c] = k]
    /\ parent' = [parent EXCEPT ![c] = par]
    /\ origin' = [origin EXCEPT ![c] = org]
    /\ status' = [status EXCEPT ![c] = "live"]

\* faulty variant: an alias made as a child of the original
as_unknown_child(c) ==
    /\ Live(c) /\ HasFree
    /\ NewChild(Fresh, "Unknown", c, 0)
    /\ activated' = handoff(activated, c, Fresh)
    /\ eng' = Start(eng)
    /\ last' = Result("as_unknown", c, "ok")
    /\ UNCHANGED <<fstate, closed, terms>>

\* as_unknown(&self): no activation check, the alias is born active
as_unknown(c) ==
    /\ Live(c) /\ HasFree
    /\ NewChild(Fresh, "Unknown", 0, c)
    /\ activated' = [activated EXCEPT ![Fresh] = TRUE]
    /\ eng' = Start(eng)
    /\ last' = Result("as_unknown", c, "ok")
    /\ UNCHANGED <<fstate, closed, terms>>

\* hold: whether the caller keeps the Term returned or lets it go at once
new_term_ref(c, hold) ==
    /\ Live(c)
    /\ IF assert_activated(c)
       THEN /\ eng.refTop < MaxRefs
            /\ hold => Cardinality(terms) < MaxRefs
            /\ eng' = PL_new_term_ref(Start(eng))
            /\ terms' = IF hold
                        THEN terms \cup {[owner |-> c, slot |-> eng.refTop + 1, stale |-> FALSE]}
                        ELSE terms
            /\ last' = Result("new_term_ref", c, "ok")
            /\ UNCHANGED ctxvars
       ELSE Panic(c)

\* unsafe: the caller passes a term_t it got from the engine; the Term made of
\* it is a temporary, as in open_query
wrap_term_ref(c, slot) ==
    /\ Live(c) /\ slot \in 1..eng.refTop
    /\ IF assert_activated(c)
       THEN /\ last' = Result("wrap_term_ref", c, "ok")
            /\ eng' = Start(eng)
            /\ UNCHANGED <<ctxvars, terms>>
       ELSE Panic(c)

open_frame(c) ==
    /\ Live(c)
    /\ IF assert_activated(c)
       THEN /\ HasFree
            /\ eng' = Note(PL_open_foreign_frame(Start(eng), Fresh), "deactivate", c)
            /\ NewChild(Fresh, "Frame", c, 0)
            /\ fstate' = [fstate EXCEPT ![Fresh] = "Active"]
            /\ activated' = handoff(activated, c, Fresh)
            /\ last' = Result("open_frame", c, "ok")
            /\ UNCHANGED <<closed, terms>>
       ELSE Panic(c)

\* The drop glue of Context<T> run on context c, whose Frame/Query field is in
\* state st / cl by then, on engine e0 (the engine after the calls the consuming
\* method made itself): Drop for Context (reactivate the parent) first, then
\* the field's Drop.  What is left of c is that its identity was used.
ConsumeEng(c, e0, st, cl) ==
    Forget(IF kind[c] = "Frame" THEN FrameDrop(ContextDropNote(e0, c), c, st)
           ELSE IF kind[c] = "Query" THEN QueryDrop(ContextDropNote(e0, c), c, cl)
           ELSE ContextDropNote(e0, c), c)

Consume(op, c, e0, st, cl) ==
    /\ activated' = [ContextDrop(activated, c) EXCEPT ![c] = FALSE]
    /\ eng' = ConsumeEng(c, e0, st, cl)
    /\ kind' = [kind EXCEPT ![c] = "None"]
    /\ parent' = [parent EXCEPT ![c] = 0]
    /\ origin' = [origin EXCEPT ![c] = 0]
    /\ fstate' = [fstate EXCEPT ![c] = "Active"]
    /\ closed' = [closed EXCEPT ![c] = FALSE]
    /\ status' = [status EXCEPT ![c] = "dropped"]
    /\ terms' = KeepTerms(terms, c, eng'.refTop)
    /\ last' = Result(op, c, IF ContextDropPanics(c) THEN "panic" ELSE "ok")

\* a context of any kind going out of scope (std::mem::drop, end of block, unwinding)
drop(c) ==
    /\ Live(c) /\ Leaf(c)
    /\ Consume("drop", c, Start(eng), fstate[c], closed[c])

close_frame(c) ==
    /\ Live(c) /\ Leaf(c) /\ kind[c] = "Frame"
    /\ Consume("close_frame", c, Start(eng), fstate[c], closed[c])

discard_frame(c) ==
    /\ Live(c) /\ Leaf(c) /\ kind[c] = "Frame"
    /\ Consume("discard_frame", c, PL_discard_foreign_frame(Start(eng), c), "Discarded",
               closed[c])

rewind_frame(c) ==
    /\ Live(c) /\ kind[c] = "Frame"
    /\ IF assert_activated(c)
       THEN /\ eng' = PL_rewind_foreign_frame(Start(eng), c)
            /\ terms' = KeepTerms(terms, 0, eng'.refTop)
            /\ last' = Result("rewind_frame", c, "ok")
            /\ UNCHANGED ctxvars
       ELSE Panic(c)

QueryableContextType(k) == k \in {"ActivatedEngine", "Frame"}

\* faulty variant: an open_query that stores the flag before it opens the query
OpenQueryEng_early(e, c, q, v, g, nargs) ==
    PL_open_query(BindFresh(PL_new_term_refs(Note(e, "deactivate", c), nargs), nargs), q, v, g)

\* The engine after open_query's calls on context c for the new query q: the
\* argument block, one unify per argument, the query opened, the flag stored
OpenQueryEng(e, c, q, v, g, nargs) ==
    Note(PL_open_query(BindFresh(PL_new_term_refs(e, nargs), nargs), q, v, g), "deactivate", c)

\* open_query(&self, context, predicate, args), called as op: nargs =
\* args.len(); the goal (predicate and arguments) is one that binds variable v
\* and has g solutions.
OpenQuery(op, c, v, g, nargs) ==
    /\ Live(c) /\ QueryableContextType(kind[c])
    /\ IF assert_activated(c)
       THEN /\ HasFree
            /\ eng.refTop + nargs <= MaxRefs
            /\ eng.value[v] = 0
            /\ eng' = OpenQueryEng(Start(eng), c, Fresh, v, g, nargs)
            /\ NewChild(Fresh, "Query", c, 0)
            /\ closed' = [closed EXCEPT ![Fresh] = FALSE]
            /\ activated' = handoff(activated, c, Fresh)
            /\ last' = Result(op, c, "ok")
            /\ UNCHANGED <<fstate, terms>>
       ELSE Panic(c)

open_query(c, v, g, nargs) == OpenQuery("open_query", c, v, g, nargs)

\* open_call(&self, t): open_query on call/1 with the one argument t
open_call(c, v, g) == OpenQuery("open_call", c, v, g, 1)

\* faulty variant: the two success codes taken for each other
QueryResult_swapped(rc) ==
    CASE rc = -1 -> "Exception"
      [] rc = 0 -> "Failure"
      [] rc = 1 -> "SuccessLast"
      [] rc = 2 -> "Success"
      [] OTHER -> "panic"

QueryResult(rc) ==
    CASE rc = -1 -> "Exception"
      [] rc = 0 -> "Failure"
      [] rc = 1 -> "Success"
      [] rc = 2 -> "SuccessLast"
      [] OTHER -> "panic"

\* next_solution(&self): no activation check before the engine call
next_solution(c) ==
    /\ Live(c) /\ kind[c] = "Query"
    /\ eng' = PL_next_solution(Start(eng), c)
    /\ last' = Result("next_solution", c, QueryResult(eng'.qrc[c]))
    /\ UNCHANGED <<ctxvars, terms>>

cut(c) ==
    /\ Live(c) /\ Leaf(c) /\ kind[c] = "Query"
    /\ Consume("cut", c, PL_cut_query(Start(eng), c), fstate[c], TRUE)

discard(c) ==
    /\ Live(c) /\ Leaf(c) /\ kind[c] = "Query"
    /\ Consume("discard", c, PL_close_query(Start(eng), c), fstate[c], TRUE)

\* faulty variant: a term for every solution, last or not
TermResult_any(rc) == IF rc \in {1, 2} THEN "Some" ELSE "None"

\* match query.next_solution() { SuccessLast => Some(term), _ => None }
TermResult(rc) == IF QueryResult(rc) = "SuccessLast" THEN "Some" ELSE "None"

\* The engine after term_from_string on context c, its query being q and the
\* parsing goal having g solutions: three new_term_ref, two unify, open_query
\* with three arguments, next_solution, cut, and the drop of the query context.
\* A next_solution that panics unwinds: the query context is dropped uncut.
TermFromStringEng(e, c, q, g) ==
    LET refs == PL_new_term_ref(PL_new_term_ref(PL_new_term_ref(e)))
        opened == OpenQueryEng(BindFresh(refs, 2), c, q, 0, g, 3)
        solved == PL_next_solution(opened, q)
        ev == IF reactivate_panics(handoff(activated, c, q), c) THEN "panic" ELSE "reactivate"
    IN  IF QueryResult(solved.qrc[q]) = "panic"
        THEN Forget(QueryDrop(Note(solved, ev, c), q, FALSE), q)
        ELSE Forget(QueryDrop(Note(PL_cut_query(solved, q), ev, c), q, TRUE), q)

\* term_from_string(&self, s): g is what the parsing goal does on s; hold is
\* whether the caller keeps the Term it is given.  The query context q lives
\* and ends inside the call.
term_from_string(c, g, hold) ==
    /\ Live(c) /\ QueryableContextType(kind[c])
    /\ IF assert_activated(c)
       THEN /\ HasFree
            /\ eng.refTop <= MaxRefs
            /\ hold => Cardinality(terms) < MaxRefs
            /\ eng' = TermFromStringEng(Start(eng), c, Fresh, g)
            /\ status' = [status EXCEPT ![Fresh] = "dropped"]
            /\ last' = Result("term_from_string", c,
                               IF QueryResult(eng'.qrc[Fresh]) = "panic" THEN "panic"
                               ELSE TermResult(eng'.qrc[Fresh]))
            /\ terms' = IF hold /\ last'.result = "Some"
                        THEN terms \cup {[owner |-> c, slot |-> eng.refTop + 1, stale |-> FALSE]}
                        ELSE terms
            /\ activated' = [reactivate(handoff(activated, c, Fresh), c) EXCEPT ![Fresh] = FALSE]
            /\ UNCHANGED <<kind, parent, origin, fstate, closed>>
       ELSE Panic(c)

\* Term::unify on a term holding variable v (term.rs): binds v when it is free
unify(v) ==
    /\ eng.value[v] = 0
    /\ eng' = Bind(Start(eng), v, 1)
    /\ last' = Result("unify", 0, "ok")
    /\ UNCHANGED <<ctxvars, terms>>

\* Every operation of the API; open_query is called with one argument here
\* and with none in NextProtocol and NextQuery.
Next ==
    \/ \E c \in Ids : as_unknown(c)
    \/ \E c \in Ids, hold \in BOOLEAN : new_term_ref(c, hold)
    \/ \E c \in Ids, s \in 1..MaxRefs : wrap_term_ref(c, s)
    \/ \E c \in Ids : open_frame(c)
    \/ \E c \in Ids : drop(c)
    \/ \E c \in Ids : close_frame(c)
    \/ \E c \in Ids : discard_frame(c)
    \/ \E c \in Ids : rewind_frame(c)
    \/ \E c \in Ids, v \in Vars, g \in Goals : open_query(c, v, g, 1)
    \/ \E c \in Ids, v \in Vars, g \in Goals : open_call(c, v, g)
    \/ \E c \in Ids, g \in Goals, hold \in BOOLEAN : term_from_string(c, g, hold)
    \/ \E c \in Ids : next_solution(c)
    \/ \E c \in Ids : cut(c)
    \/ \E c \in Ids : discard(c)
    \/ \E v \in Vars : unify(v)

\* The operations of a caller that takes no alias, keeps no Term, passes no
\* arguments and runs one deterministic goal on variable 1.
NextProtocol ==
    \/ \E c \in Ids : new_term_ref(c, FALSE)
    \/ \E c \in Ids, s \in 1..MaxRefs : wrap_term_ref(c, s)
    \/ \E c \in Ids : open_frame(c)
    \/ \E c \in Ids : drop(c)
    \/ \E c \in Ids : close_frame(c)
    \/ \E c \in Ids : discard_frame(c)
    \/ \E c \in Ids : rewind_frame(c)
    \/ \E c \in Ids : open_query(c, 1, 1, 0)
    \/ \E c \in Ids : next_solution(c)
    \/ \E c \in Ids : cut(c)
    \/ \E c \in Ids : discard(c)

SpecProtocol == Init /\ [][NextProtocol]_vars

\* The operations of a caller that runs queries, one after the other, from
\* contexts it opens no frame on: every goal on every variable, parsing, and
\* every way to conclude.
NextQuery ==
    \/ \E c \in Ids, v \in Vars, g \in Goals : open_query(c, v, g, 0)
    \/ \E c \in Ids, g \in Goals : term_from_string(c, g, FALSE)
    \/ \E c \in Ids : next_solution(c)
    \/ \E c \in Ids : cut(c)
    \/ \E c \in Ids : discard(c)
    \/ \E c \in Ids : drop(c)

SpecQuery == Init /\ [][NextQuery]_vars

\* The operations of a caller that takes aliases and opens and ends frames
\* and queries through them and through the originals.
NextAlias ==
    \/ \E c \in Ids : as_unknown(c)
    \/ \E c \in Ids : open_frame(c)
    \/ \E c \in Ids : open_query(c, 1, 1, 0)
    \/ \E c \in Ids : open_call(c, 1, 1)
    \/ \E c \in Ids : term_from_string(c, 1, FALSE)
    \/ \E c \in Ids : drop(c)
    \/ \E c \in Ids : close_frame(c)
    \/ \E c \in Ids : discard_frame(c)
    \/ \E c \in Ids : cut(c)
    \/ \E c \in Ids : discard(c)

SpecAlias == Init /\ [][NextAlias]_vars

Spec == Init /\ [][Next]_vars

\* ------------------------------------------------------------ properties
Children(c) == {d \in Ids : Live(d) /\ parent[d] = c}

Active == {c \in Ids : Live(c) /\ activated[c]}

\* The operations that start with assert_activated, as steps on context c
GuardedOp(c) ==
    \/ \E hold \in BOOLEAN : new_term_ref(c, hold)
    \/ \E slot \in 1..MaxRefs : wrap_term_ref(c, slot)
    \/ open_frame(c)
    \/ \E v \in Vars, g \in Goals, n \in 0..1 : open_query(c, v, g, n)
    \/ rewind_frame(c)

\* C1: along every parent chain of live contexts exactly one context is active,
\* the deepest one: a live context has at most one live child, its parent is
\* live, and it is active exactly when it has no live child (so a root is
\* active exactly when it has no live descendant).
C1_SingleActivity ==
    \A c \in Ids : Live(c) =>
        /\ Cardinality(Children(c)) <= 1
        /\ parent[c] # 0 => Live(parent[c])
        /\ activated[c] <=> Children(c) = {}

\* a chain three deep: root and child inactive, grandchild active
C1_Witness ==
    \E c, d \in Ids :
        /\ Live(c) /\ Live(d) /\ parent[c] = Root /\ parent[d] = c
        /\ ~activated[Root] /\ ~activated[c] /\ activated[d]

\* C2: new_term_ref, wrap_term_ref, open_frame, open_query and rewind_frame on
\* a context whose flag is false fault before any engine entry point is called
\* and leave every flag and every frame and query state as it was.
C2_InactiveFaults ==
    [][\A c \in Ids : (Live(c) /\ ~activated[c] /\ GuardedOp(c)) =>
            /\ last'.result = "panic" /\ last'.ctx = c
            /\ eng'.calls = <<>>
            /\ eng' = Start(eng)
            /\ UNCHANGED <<ctxvars, terms>>]_vars

\* an inactive context (its child frame is alive) has just faulted
C2_Witness ==
    /\ last.result = "panic" /\ last.op = "assert_activated"
    /\ Live(last.ctx) /\ ~activated[last.ctx]
    /\ \E d \in Ids : Live(d) /\ parent[d] = last.ctx /\ kind[d] = "Frame"
    /\ eng.calls = <<>>

\* C3: at most one live context of one engine is active, aliases included.
C3_AtMostOneActive == Cardinality(Active) <= 1

\* The calls of kind evs made for entry id in the operation that led to e
CallsOf(e, evs, id) == {i \in DOMAIN e.calls : e.calls[i].ev \in evs /\ e.calls[i].id = id}

ReleaseCalls ==
    {"PL_close_foreign_frame", "PL_discard_foreign_frame", "PL_cut_query", "PL_close_query"}

\* context c ends in this step
Ends(c) == Live(c) /\ status'[c] = "dropped"

\* C4: a frame or query is released on the engine only when it is the last
\* one opened that is still open, and a context ends only when no context
\* derived from it is left.
C4_StrictLifo ==
    [][\A c \in Ids :
            /\ CallsOf(eng', ReleaseCalls, c) # {} =>
                   (eng.stack # <<>> /\ eng.stack[Len(eng.stack)] = c)
            /\ Ends(c) => Borrowers(c) = {}]_vars

\* C5: no Term the caller still holds refers to a slot that was freed (by a
\* close, a discard or a rewind) after the Term was made.
C5_NoStaleTerm == \A t \in terms : ~t.stale

\* C6: when a child ends, by whatever path, its parent is active again and
\* passes assert_activated; while a child is alive its parent does not; a
\* context none of whose children is left is active.
C6_ParentReactivated ==
    /\ [](\A d \in Ids : (Live(d) /\ parent[d] # 0) => ~assert_activated(parent[d]))
    /\ [](\A c \in Ids : (Live(c) /\ Children(c) = {}) => assert_activated(c))
    /\ [][\A c, p \in Ids : (Ends(c) /\ parent[c] = p) =>
              (~activated[p] /\ activated'[p] /\ status'[p] = "live")]_vars

\* a child has just ended and the root, its parent, is active again
C6_Witness ==
    /\ last.op \in {"drop", "close_frame", "discard_frame", "cut", "discard"}
    /\ \E i \in DOMAIN eng.calls : eng.calls[i] = [ev |-> "reactivate", id |-> Root]
    /\ activated[Root] /\ Children(Root) = {}

QueryConclusions == {"PL_cut_query", "PL_close_query"}

\* C7: a query is concluded exactly once, in the step that ends its context:
\* by one cut call if cut is called, by one close call if discard is called or
\* the context is dropped; no other step makes a conclusion call for it.  (The
\* query of term_from_string begins and ends in one step: one cut, or one
\* close if the step unwinds.)
C7_QueryConcludedOnce ==
    [][\A c \in Ids :
            LET n == Cardinality(CallsOf(eng', QueryConclusions, c))
                cuts == Cardinality(CallsOf(eng', {"PL_cut_query"}, c))
                inner == status[c] = "unborn" /\ status'[c] = "dropped"
            IN  /\ (Ends(c) /\ kind[c] = "Query") =>
                       (n = 1 /\ (cuts = 1 <=> last'.op = "cut"))
                /\ inner => (n = 1 /\ (cuts = 1 <=> last'.result # "panic"))
                /\ (~(Ends(c) /\ kind[c] = "Query") /\ ~inner) => n = 0
                /\ status[c] = "dropped" => status'[c] = "dropped"]_vars

\* a query was cut: one cut call, no close call at the drop that followed
C7_Witness ==
    /\ last.op = "cut" /\ status[last.ctx] = "dropped"
    /\ Cardinality(CallsOf(eng, {"PL_cut_query"}, last.ctx)) = 1
    /\ CallsOf(eng, {"PL_close_query"}, last.ctx) = {}

FrameConclusions == {"PL_close_foreign_frame", "PL_discard_foreign_frame"}

\* C8: a frame gets exactly one terminal call, in the step that ends its
\* context: one discard and no close when discard_frame is called, one close
\* and no discard on close_frame or drop; no other step closes or discards it.
C8_FrameTerminatedOnce ==
    [][\A c \in Ids :
            LET n == Cardinality(CallsOf(eng', FrameConclusions, c))
                discards == Cardinality(CallsOf(eng', {"PL_discard_foreign_frame"}, c))
            IN  /\ (Ends(c) /\ kind[c] = "Frame") =>
                       (n = 1 /\ (discards = 1 <=> last'.op = "discard_frame"))
                /\ ~(Ends(c) /\ kind[c] = "Frame") => n = 0
                /\ status[c] = "dropped" => status'[c] = "dropped"]_vars

\* a frame was discarded: one discard call, no close call at the drop that followed
C8_Witness ==
    /\ last.op = "discard_frame" /\ status[last.ctx] = "dropped"
    /\ Cardinality(CallsOf(eng, {"PL_discard_foreign_frame"}, last.ctx)) = 1
    /\ CallsOf(eng, {"PL_close_foreign_frame"}, last.ctx) = {}

\* The variables bound since entry c was opened
BoundSince(e, c) ==
    {v \in Vars : \E i \in (e.mark[c].trail + 1)..Len(e.trail) : e.trail[i] = v}

\* C9: dropping a query context that was neither cut nor discarded does what
\* discard does from the same state: the same single close call, the parent
\* reactivated, the same bindings afterwards, none of them made since the
\* query was opened.
C9_DropIsDiscard ==
    [][\A c \in Ids : (kind[c] = "Query" /\ ~closed[c] /\ drop(c)) =>
            LET d == ConsumeEng(c, PL_close_query(Start(eng), c), fstate[c], TRUE)
            IN  /\ eng'.value = d.value /\ eng'.trail = d.trail
                /\ eng'.stack = d.stack /\ eng'.refTop = d.refTop
                /\ {eng'.calls[i] : i \in DOMAIN eng'.calls} = {d.calls[i] : i \in DOMAIN d.calls}
                /\ Len(eng'.calls) = Len(d.calls)
                /\ Cardinality(CallsOf(eng', {"PL_close_query"}, c)) = 1
                /\ \A p \in Ids : parent[c] = p => activated'[p]
                /\ \A v \in BoundSince(eng, c) : eng'.value[v] = 0]_vars

\* a query that had produced its solution was dropped unconcluded: the close
\* call was made, the root is active again and the variable has no value
C9_Witness ==
    /\ last.op = "drop" /\ status[last.ctx] = "dropped"
    /\ eng.qrc[last.ctx] = 2
    /\ CallsOf(eng, {"PL_close_query"}, last.ctx) # {}
    /\ activated[Root] /\ eng.value[1] = 0

\* C10: for a query whose last next_solution produced bindings, after cut the
\* solution is still bound, and after discard nothing bound since the query
\* was opened is.
C10_CutKeepsDiscardErases ==
    [][\A c \in Ids : (kind[c] = "Query" /\ Live(c) /\ eng.qrc[c] \in {1, 2}) =>
            /\ cut(c) => eng'.value[eng.qvar[c]] = eng.qpos[c]
            /\ discard(c) => \A v \in BoundSince(eng, c) \cup {eng.qvar[c]} : eng'.value[v] = 0]_vars

C12_TermFromString ==
    [][\A c \in Ids : (activated[c] /\ \E g \in Goals, hold \in BOOLEAN : term_from_string(c, g, hold)
                          /\ eng'.qrc[Fresh] \in (-1)..2) =>
            LET q == Fresh
            IN  /\ last'.result = "Some" <=> eng'.qrc[q] = 2
                /\ last'.result = "None" <=> eng'.qrc[q] \in {-1, 0, 1}
                /\ Cardinality(CallsOf(eng', {"PL_next_solution"}, q)) = 1
                /\ Cardinality(CallsOf(eng', {"PL_cut_query"}, q)) = 1
                /\ CallsOf(eng', {"PL_close_query"}, q) = {}
                /\ eng'.stack = eng.stack /\ q \notin OpenOn(eng')
                /\ status'[q] = "dropped"
                /\ activated' = activated /\ activated'[c]]_vars

\* the parsing goal raised an exception: None, the query cut, the root active
C12_Witness ==
    /\ last = Result("term_from_string", Root, "None")
    /\ activated[Root] /\ eng.stack = <<>>
    /\ \E q \in Ids :
           /\ status[q] = "dropped" /\ eng.qrc[q] = -1
           /\ CallsOf(eng, {"PL_cut_query"}, q) # {}

C14_InactiveQueryFaults ==
    [][\A c \in Ids : (Live(c) /\ kind[c] = "Query" /\ ~activated[c] /\ next_solution(c)) =>
            (last'.result = "panic" /\ eng'.calls = <<>>)]_vars

\* C15: as_unknown on any live context makes an alias of kind Unknown with
\* its flag true and no parent, changes no other flag and calls no engine
\* entry point; the drop of an alias calls no engine entry point, changes no
\* other context's flag and leaves the engine's frames, queries and bindings
\* as they were.
C15_AliasEffect ==
    [][\A c \in Ids :
            /\ as_unknown(c) =>
                   /\ kind'[Fresh] = "Unknown" /\ activated'[Fresh] /\ parent'[Fresh] = 0
                   /\ origin'[Fresh] = c
                   /\ \A d \in Ids \ {Fresh} : activated'[d] = activated[d]
                   /\ eng' = Start(eng)
            /\ (kind[c] = "Unknown" /\ drop(c)) =>
                   /\ eng'.calls = <<>>
                   /\ \A d \in Ids \ {c} : activated'[d] = activated[d]
                   /\ eng'.stack = eng.stack /\ eng'.value = eng.value
                   /\ eng'.refTop = eng.refTop]_vars

\* an alias taken of an inactive root (its frame is open) has been dropped
C15_Witness ==
    /\ last.op = "drop" /\ status[last.ctx] = "dropped" /\ eng.calls = <<>>
    /\ ~activated[Root] /\ \E d \in Ids : Live(d) /\ parent[d] = Root /\ activated[d]

\* The positions in the trace of the operation that led to e of event ev on id
At(e, ev, id) == CallsOf(e, {ev}, id)

\* C16: open_frame and open_query on an active context open the frame or
\* query on the engine first and store false in the caller's flag after it;
\* the child they return is active, has the caller as parent and starts
\* Active (frame) or not closed (query); no other flag changes.
C16_OpenHandoff ==
    [][\A c \in Ids :
            LET q == Fresh
                frame == open_frame(c)
                query == \E v \in Vars, g \in Goals, n \in 0..1 : open_query(c, v, g, n)
                opening == IF frame THEN "PL_open_foreign_frame" ELSE "PL_open_query"
            IN  (activated[c] /\ (frame \/ query)) =>
                   /\ Cardinality(At(eng', opening, q)) = 1
                   /\ Cardinality(At(eng', "deactivate", c)) = 1
                   /\ \A i \in At(eng', opening, q), j \in At(eng', "deactivate", c) : i < j
                   /\ ~activated'[c] /\ activated'[q]
                   /\ status'[q] = "live" /\ parent'[q] = c /\ origin'[q] = 0
                   /\ kind'[q] = IF frame THEN "Frame" ELSE "Query"
                   /\ frame => fstate'[q] = "Active"
                   /\ query => ~closed'[q]
                   /\ q \in OpenOn(eng')
                   /\ \A d \in Ids \ {c, q} : activated'[d] = activated[d]]_vars

\* a query has just been opened from a frame: the frame inactive, the query active
C16_Witness ==
    /\ last.op = "open_query" /\ last.result = "ok"
    /\ kind[last.ctx] = "Frame" /\ ~activated[last.ctx]
    /\ \E q \in Ids : Live(q) /\ kind[q] = "Query" /\ parent[q] = last.ctx /\ activated[q]
    /\ eng.calls[Len(eng.calls)] = [ev |-> "deactivate", id |-> last.ctx]

\* C17: reactivate never finds the parent active: every live context that has
\* a parent has it inactive, no operation's trace holds the "context already
\* active" fault, and no operation that ends a context ends in a fault.
C17_NoDoubleReactivation ==
    /\ \A c \in Ids : (Live(c) /\ parent[c] # 0) => ~reactivate_panics(activated, parent[c])
    /\ \A i \in DOMAIN eng.calls : eng.calls[i].ev # "panic"
    /\ last.op \in {"drop", "close_frame", "discard_frame", "cut", "discard"}
           => last.result # "panic"

\* a frame opened through an alias has been discarded and the alias
\* reactivated, while the original is active too
C17_Witness ==
    /\ last.op = "discard_frame" /\ last.result = "ok"
    /\ \E a \in Ids :
           /\ Live(a) /\ kind[a] = "Unknown" /\ activated[a] /\ activated[origin[a]]
           /\ At(eng, "reactivate", a) # {}

\* C18: next_solution gives Exception for -1, Failure for 0, Success for 1,
\* SuccessLast for 2 and faults on any other code; whatever the code, the
\* query is as open afterwards as it was: no context field changes, no
\* conclusion call is made and the query stays on the engine.
C18_ReturnCodeTable ==
    [][\A c \in Ids : (Live(c) /\ kind[c] = "Query" /\ next_solution(c)) =>
            LET rc == eng'.qrc[c]
            IN  /\ rc = -1 => last'.result = "Exception"
                /\ rc = 0 => last'.result = "Failure"
                /\ rc = 1 => last'.result = "Success"
                /\ rc = 2 => last'.result = "SuccessLast"
                /\ rc \notin (-1)..2 => last'.result = "panic"
                /\ UNCHANGED ctxvars
                /\ ~closed'[c] /\ status'[c] = "live"
                /\ CallsOf(eng', QueryConclusions, c) = {}
                /\ Cardinality(CallsOf(eng', {"PL_next_solution"}, c)) = 1
                /\ eng'.stack = eng.stack]_vars

\* a query whose goal raised an exception: Exception returned, the query
\* still open and active, its parent still inactive
C18_Witness ==
    \E c \in Ids :
        /\ last = Result("next_solution", c, "Exception")
        /\ Live(c) /\ ~closed[c] /\ activated[c] /\ c \in OpenOn(eng)
        /\ parent[c] = Root /\ ~activated[Root]

C20_ReleaseBeforeReactivate ==
    [][\A c \in Ids : (Ends(c) /\ parent[c] # 0 /\ kind[c] \in {"Frame", "Query"}) =>
            \A i \in CallsOf(eng', ReleaseCalls, c), j \in At(eng', "reactivate", parent[c]) :
                i < j]_vars

====
